---- MODULE Spec2Model ----
(***************************************************************************)
(* Model of the chat route (POST /api/chat, buffered JSON envelope) and of *)
(* the client page (handleSubmit, Send button, Enter key).                 *)
(*                                                                         *)
(* Scores are kept in tenths: the code's 0.7 is 7 here.                    *)
(* JavaScript strings that the code only copies are strings here; a text   *)
(* that the client splits into lines is a sequence of symbols.             *)
(***************************************************************************)
EXTENDS Integers, Sequences, FiniteSets, TLC

(***************************************************************************)
(* Bounds                                                                  *)
(***************************************************************************)
MaxRecords == 3
MaxChunks == 3
MaxSubmits == 2

(***************************************************************************)
(* Program constants                                                       *)
(***************************************************************************)
Threshold == 7

VARIABLES
    \* ---- route ----
    variant,             \* which of the two POST versions is deployed
    fuzzy,               \* match(name, lowerMessage).score of the fuzzyjs library
    GROQ_API_KEY,        \* process.env.GROQ_API_KEY
    file,                \* src/data/neighborhoods.json on disk
    pc,                  \* where the handler of the current request is
    body,                \* the request body as sent
    neighborhoods,       \* the parsed dataset
    matchedNeighborhood, \* result of the reduce
    neighborhood,        \* matchedNeighborhood, or null below the threshold
    sent,                \* the messages array given to groq.chat.completions.create
    upstream,            \* the promise of the upstream call
    aiResponse,          \* response.choices?.[0]?.message?.content
    upstreamCalls,       \* calls of the chat-completion API for this request
    datasetReads,        \* fs.readFileSync calls for this request
    responses,           \* responses produced for this request
    response,            \* the last response
    \* ---- client page ----
    message,             \* useState('') of the input box
    history,             \* useState<ChatMessage[]>([])
    isLoading,           \* useState(false)
    selectedNeighborhood,\* useState(null)
    position,            \* useState([25.7617, -80.1918])
    calls                \* the handleSubmit invocations issued so far

routeVars == <<variant, fuzzy, GROQ_API_KEY, file, pc, body, neighborhoods,
               matchedNeighborhood, neighborhood, sent, upstream, aiResponse,
               upstreamCalls, datasetReads, responses, response>>
pageVars == <<message, history, isLoading, selectedNeighborhood, position, calls>>
vars == <<routeVars, pageVars>>

(***************************************************************************)
(* JavaScript values                                                       *)
(***************************************************************************)
\* process.env.X of an unset variable is undefined
Undefined == "<undefined>"

\* String.prototype.toLowerCase on the strings of the model
toLowerCase(s) ==
    CASE s = "Brickell" -> "brickell"
      [] s = "Doral" -> "doral"
      [] s = "Flood risk in Brickell?" -> "flood risk in brickell?"
      [] s = "FLOOD RISK IN BRICKELL?" -> "flood risk in brickell?"
      [] OTHER -> s

\* the `!x` test on a string-or-undefined value (an environment variable, the
\* content of a completion): undefined and the empty string are falsy
NotOnlyUndefined(x) == x = Undefined

Not(x) == x = Undefined \/ x = ""

\* a request message: the `message` property of the parsed body
MessageValues ==
    [type : {"undefined"}, val : {""}]
      \cup [type : {"string"}, val : {"", "Flood risk in Brickell?", "FLOOD RISK IN BRICKELL?"}]
      \cup [type : {"number"}, val : {"0", "42"}]

\* JavaScript truthiness of a message value (the `!message` test)
Truthy(m) ==
    CASE m.type = "undefined" -> FALSE
      [] m.type = "string" -> m.val # ""
      [] m.type = "number" -> m.val # "0"

\* what the client can put on the wire: text that is not JSON, the JSON
\* literal null, or a JSON object
Bodies ==
    [kind : {"malformed", "null"}, message : [type : {"undefined"}, val : {""}]]
      \cup [kind : {"object"}, message : MessageValues]

\* no request is being handled
NoBody == [kind |-> "none", message |-> [type |-> "undefined", val |-> ""]]

(***************************************************************************)
(* Dataset                                                                 *)
(***************************************************************************)
Names == {"Brickell", "brickell", "Doral"}
LowerNames == {toLowerCase(n) : n \in Names}
LowerQueries == {toLowerCase(m.val) : m \in {x \in MessageValues : x.type = "string" /\ x.val # ""}}

\* the library's score range is not fixed by the source: zero, a negative
\* value and values below, at and above the threshold
Scores == {-3, 0, 5, 7, 8}

\* NeighborhoodRecord; `description` stands for all the interpolated fields
Records ==
    { [name |-> "Brickell", description |-> "d1", lat |-> 1, lon |-> 11],
      [name |-> "brickell", description |-> "d2", lat |-> 2, lon |-> 12],
      [name |-> "Doral",    description |-> "d3", lat |-> 3, lon |-> 13] }

SeqUpTo(S, n) == UNION { [1..k -> S] : k \in 0..n }

Files ==
    [state : {"missing", "badjson"}, data : {<< >>}]
      \cup [state : {"ok"}, data : SeqUpTo(Records, MaxRecords)]

(***************************************************************************)
(* The reduce of the matcher                                               *)
(***************************************************************************)
\* the accumulator's initial value { score: 0 }
InitialBest == [index |-> 0, name |-> "", description |-> "", lat |-> 0, lon |-> 0, score |-> 0]

\* best.score || 0
OrZero(x) == IF x = 0 THEN 0 ELSE x

\* the reducer callback (best, n) => ...; i is the position of n
ReducerStrictAsGeq(best, n, i, lowerMessage) ==
    LET score == fuzzy[<<toLowerCase(n.name), lowerMessage>>]
    IN IF score >= OrZero(best.score)
         THEN [index |-> i, name |-> n.name, description |-> n.description,
               lat |-> n.lat, lon |-> n.lon, score |-> score]
         ELSE best

Reducer(best, n, i, lowerMessage) ==
    LET score == fuzzy[<<toLowerCase(n.name), lowerMessage>>]
    IN IF score > OrZero(best.score)
         THEN [index |-> i, name |-> n.name, description |-> n.description,
               lat |-> n.lat, lon |-> n.lon, score |-> score]
         ELSE best

\* Array.prototype.reduce over the first k records, left to right
RECURSIVE Reduce(_, _, _)
Reduce(ns, k, lowerMessage) ==
    IF k = 0 THEN InitialBest
    ELSE Reducer(Reduce(ns, k - 1, lowerMessage), ns[k], k, lowerMessage)

\* matchedNeighborhood.score > 0.7 ? matchedNeighborhood : null
NullNeighborhood == [index |-> 0, name |-> "", description |-> "", lat |-> 0, lon |-> 0, score |-> 0, isNull |-> TRUE]

AcceptAtThreshold(m) ==
    IF m.score >= Threshold
      THEN [index |-> m.index, name |-> m.name, description |-> m.description,
            lat |-> m.lat, lon |-> m.lon, score |-> m.score, isNull |-> FALSE]
      ELSE NullNeighborhood

Accept(m) ==
    IF m.score > Threshold
      THEN [index |-> m.index, name |-> m.name, description |-> m.description,
            lat |-> m.lat, lon |-> m.lon, score |-> m.score, isNull |-> FALSE]
      ELSE NullNeighborhood

(***************************************************************************)
(* Prompt composer                                                         *)
(***************************************************************************)
NoContext == [present |-> FALSE, name |-> "", description |-> ""]

\* the template of the deployed version, plus the neighborhood block
systemPrompt(v, n) ==
    [template |-> v,
     context |-> IF n.isNull THEN NoContext
                 ELSE [present |-> TRUE, name |-> n.name, description |-> n.description]]

NothingSent == [system |-> [template |-> "", context |-> NoContext], user |-> ""]

(***************************************************************************)
(* Responses                                                               *)
(***************************************************************************)
NullLocation == [isNull |-> TRUE, lat |-> 0, lon |-> 0]

\* NextResponse.json({ error, details? }, { status })
ErrorResponse(st, err, det) ==
    [status |-> st, json |-> TRUE, error |-> err, details |-> det,
     parsed |-> FALSE, text |-> "", location |-> NullLocation]

\* NextResponse.json({ parsed: { response, location } })
ParsedResponse(txt, loc) ==
    [status |-> 200, json |-> TRUE, error |-> "", details |-> "",
     parsed |-> TRUE, text |-> txt, location |-> loc]

\* the handler threw: the framework answers 500 without a JSON body
UnhandledResponse ==
    [status |-> 500, json |-> FALSE, error |-> "", details |-> "",
     parsed |-> FALSE, text |-> "", location |-> NullLocation]

NoResponse ==
    [status |-> 0, json |-> FALSE, error |-> "", details |-> "",
     parsed |-> FALSE, text |-> "", location |-> NullLocation]

\* neighborhood ? { lat, lon } : null
LocationSwapped(n) ==
    IF ~n.isNull THEN [isNull |-> FALSE, lat |-> n.lon, lon |-> n.lat] ELSE NullLocation

Location(n) ==
    IF ~n.isNull THEN [isNull |-> FALSE, lat |-> n.lat, lon |-> n.lon] ELSE NullLocation

\* response.choices?.[0]?.message?.content of a call that returned
Contents == {Undefined, "", "Elevate utilities."}

\* err.message of a call that threw
UpstreamErrors == {"429 rate limit", "fetch failed"}

(***************************************************************************)
(* The route handler POST                                                  *)
(***************************************************************************)
RouteInit ==
    /\ variant \in {"global", "southFlorida"}
    /\ fuzzy \in [LowerNames \X LowerQueries -> Scores]
    /\ GROQ_API_KEY = Undefined
    /\ file = [state |-> "missing", data |-> << >>]
    /\ pc = "idle"
    /\ body = NoBody
    /\ neighborhoods = << >>
    /\ matchedNeighborhood = InitialBest
    /\ neighborhood = NullNeighborhood
    /\ sent = NothingSent
    /\ upstream = "none"
    /\ aiResponse = Undefined
    /\ upstreamCalls = 0
    /\ datasetReads = 0
    /\ responses = 0
    /\ response = NoResponse

\* a request arrives: POST is entered and suspends at `await req.json()`;
\* the environment it will see is fixed here
Request ==
    /\ UNCHANGED pageVars
    /\ pc = "idle"
    /\ \E b \in Bodies, k \in {Undefined, "", "gsk_key"}, f \in Files :
         /\ body' = b
         /\ GROQ_API_KEY' = k
         /\ file' = f
    /\ pc' = "json"
    /\ neighborhoods' = << >>
    /\ matchedNeighborhood' = InitialBest
    /\ neighborhood' = NullNeighborhood
    /\ sent' = NothingSent
    /\ upstream' = "none"
    /\ aiResponse' = Undefined
    /\ upstreamCalls' = 0
    /\ datasetReads' = 0
    /\ responses' = 0
    /\ response' = NoResponse
    /\ UNCHANGED <<variant, fuzzy>>

Respond(r) ==
    /\ response' = r
    /\ responses' = responses + 1
    /\ pc' = "done"

POST_InvalidJsonNoReturn ==
    /\ UNCHANGED pageVars
    /\ pc = "json"
    /\ body.kind = "malformed"
    /\ Respond(UnhandledResponse)
    /\ UNCHANGED <<variant, fuzzy, GROQ_API_KEY, file, body, neighborhoods,
                   matchedNeighborhood, neighborhood, sent, upstream, aiResponse,
                   upstreamCalls, datasetReads>>

\* req.json() rejects: the catch of the first try
POST_InvalidJson ==
    /\ UNCHANGED pageVars
    /\ pc = "json"
    /\ body.kind = "malformed"
    /\ Respond(ErrorResponse(400, "Invalid request body", ""))
    /\ UNCHANGED <<variant, fuzzy, GROQ_API_KEY, file, body, neighborhoods,
                   matchedNeighborhood, neighborhood, sent, upstream, aiResponse,
                   upstreamCalls, datasetReads>>

\* req.json() resolves: everything up to the await of the upstream call
POST_Body ==
    /\ UNCHANGED pageVars
    /\ pc = "json"
    /\ body.kind # "malformed"
    /\ IF body.kind = "null"
         THEN \* destructuring null throws outside every try
              /\ Respond(UnhandledResponse)
              /\ UNCHANGED <<neighborhoods, matchedNeighborhood, neighborhood,
                             sent, upstream, upstreamCalls, datasetReads>>
       ELSE IF ~Truthy(body.message) \/ body.message.type # "string"
         THEN /\ Respond(ErrorResponse(400, "Message is required and must be a string", ""))
              /\ UNCHANGED <<neighborhoods, matchedNeighborhood, neighborhood,
                             sent, upstream, upstreamCalls, datasetReads>>
       ELSE IF Not(GROQ_API_KEY)
         THEN /\ Respond(ErrorResponse(500, "Groq API key not set", ""))
              /\ UNCHANGED <<neighborhoods, matchedNeighborhood, neighborhood,
                             sent, upstream, upstreamCalls, datasetReads>>
       ELSE IF file.state # "ok"
         THEN /\ datasetReads' = datasetReads + 1
              /\ Respond(ErrorResponse(500, "Internal data error", ""))
              /\ UNCHANGED <<neighborhoods, matchedNeighborhood, neighborhood,
                             sent, upstream, upstreamCalls>>
       ELSE LET ns == file.data
                lowerMessage == toLowerCase(body.message.val)
                m == Reduce(ns, Len(ns), lowerMessage)
                n == Accept(m)
            IN /\ datasetReads' = datasetReads + 1
               /\ neighborhoods' = ns
               /\ matchedNeighborhood' = m
               /\ neighborhood' = n
               /\ sent' = [system |-> systemPrompt(variant, n), user |-> body.message.val]
               /\ upstreamCalls' = upstreamCalls + 1
               /\ upstream' = "pending"
               /\ pc' = "upstream"
               /\ UNCHANGED <<response, responses>>
    /\ UNCHANGED <<variant, fuzzy, GROQ_API_KEY, file, body, aiResponse>>

\* groq.chat.completions.create returned
POST_UpstreamReturned ==
    /\ UNCHANGED pageVars
    /\ pc = "upstream"
    /\ \E content \in Contents :
         /\ aiResponse' = content
         /\ IF Not(content)
              THEN Respond(ErrorResponse(500, "Empty response from model", ""))
              ELSE Respond(ParsedResponse(content, Location(neighborhood)))
    /\ upstream' = "returned"
    /\ UNCHANGED <<variant, fuzzy, GROQ_API_KEY, file, body, neighborhoods,
                   matchedNeighborhood, neighborhood, sent, upstreamCalls, datasetReads>>

\* groq.chat.completions.create threw
POST_UpstreamThrew ==
    /\ UNCHANGED pageVars
    /\ pc = "upstream"
    /\ \E msg \in UpstreamErrors :
         Respond(ErrorResponse(500, "Chat processing failed", msg))
    /\ upstream' = "threw"
    /\ UNCHANGED <<variant, fuzzy, GROQ_API_KEY, file, body, neighborhoods,
                   matchedNeighborhood, neighborhood, sent, aiResponse,
                   upstreamCalls, datasetReads>>

\* the response has been written; the handler's locals are gone and the
\* stateless route waits for the next request
Finish ==
    /\ UNCHANGED pageVars
    /\ pc = "done"
    /\ pc' = "idle"
    /\ GROQ_API_KEY' = Undefined
    /\ file' = [state |-> "missing", data |-> << >>]
    /\ body' = NoBody
    /\ neighborhoods' = << >>
    /\ matchedNeighborhood' = InitialBest
    /\ neighborhood' = NullNeighborhood
    /\ sent' = NothingSent
    /\ upstream' = "none"
    /\ aiResponse' = Undefined
    /\ upstreamCalls' = 0
    /\ datasetReads' = 0
    /\ responses' = 0
    /\ response' = NoResponse
    /\ UNCHANGED <<variant, fuzzy>>

RouteNext ==
    \/ Request
    \/ Finish
    \/ POST_InvalidJson
    \/ POST_Body
    \/ POST_UpstreamReturned
    \/ POST_UpstreamThrew

(***************************************************************************)
(* The client page                                                         *)
(***************************************************************************)
\* what the user can have in the input box
Inputs == {"", "  ", "Flood risk in Brickell?"}

\* String.prototype.trim on the inputs of the model
trim(s) == IF s = "  " THEN "" ELSE s

\* Symbols of a streamed text.  A sentinel symbol is the text
\* {"parsed":...} up to the end of its JSON value (or, for SentinelBroken,
\* the prefix followed by text that is not JSON).
Newline == "\n"
Plain == "Elevate."
SentinelLoc == "{\"parsed\":{\"response\":\"Raise.\",\"location\":{\"lat\":1,\"lon\":11}}}"
SentinelNull == "{\"parsed\":{\"response\":\"Raise.\",\"location\":null}}"
SentinelBroken == "{\"parsed\":{\"respo"
Sentinels == {SentinelLoc, SentinelNull, SentinelBroken}
Symbols == {Plain, Newline} \cup Sentinels

\* a chunk delivered by reader.read()
Chunks == {<<s>> : s \in Symbols}

Apology == <<"Sorry, something went wrong. Please try again.">>

\* fullResponse.split('\n'): the lines of the first k symbols, where `cur`
\* is the line being built
RECURSIVE SplitFrom(_, _, _)
SplitFrom(text, k, cur) ==
    IF k > Len(text) THEN <<cur>>
    ELSE IF text[k] = Newline THEN <<cur>> \o SplitFrom(text, k + 1, << >>)
    ELSE SplitFrom(text, k + 1, Append(cur, text[k]))

split(text) == SplitFrom(text, 1, << >>)

\* line.startsWith('{"parsed":')
startsWithParsed(line) == Len(line) > 0 /\ line[1] \in Sentinels

\* lines.find(...): index of the first line that satisfies it, 0 for undefined
find(lines) ==
    IF \E i \in 1..Len(lines) : startsWithParsed(lines[i])
      THEN CHOOSE i \in 1..Len(lines) :
             /\ startsWithParsed(lines[i])
             /\ \A j \in 1..(i - 1) : ~startsWithParsed(lines[j])
      ELSE 0

\* JSON.parse(jsonLine): throws unless the line is exactly one JSON value
Parses(line) == Len(line) = 1 /\ line[1] \in {SentinelLoc, SentinelNull}

\* data.parsed of a line that parses
ParsedOf(line) ==
    IF line[1] = SentinelLoc
      THEN [response |-> <<"Raise.">>, location |-> [isNull |-> FALSE, lat |-> 1, lon |-> 11]]
      ELSE [response |-> <<"Raise.">>, location |-> NullLocation]

InitialPosition == [lat |-> 257617, lon |-> -801918]
NoSelection == [isNull |-> TRUE, lat |-> 0, lon |-> 0, insights |-> << >>]

\* const assistantIndex = history.length + 1 (0-based)
assistantIndexOffByOne(h) == Len(h)

assistantIndex(h) == Len(h) + 1

\* newHist[i] = turn, i 0-based
SetTurn(h, i, turn) == [h EXCEPT ![i + 1] = turn]

PageInit ==
    /\ message = ""
    /\ history = << >>
    /\ isLoading = FALSE
    /\ selectedNeighborhood = NoSelection
    /\ position = InitialPosition
    /\ calls = << >>

\* onChange of the input
Type ==
    /\ UNCHANGED routeVars
    /\ Len(calls) < MaxSubmits
    /\ \E t \in Inputs : t # message /\ message' = t
    /\ UNCHANGED <<history, isLoading, selectedNeighborhood, position, calls>>

\* handleSubmit up to the await of fetch
handleSubmit ==
    IF trim(message) = ""
      THEN UNCHANGED <<message, history, isLoading, selectedNeighborhood, position, calls>>
      ELSE /\ isLoading' = TRUE
           /\ history' = history \o <<[role |-> "user", content |-> <<message>>],
                                      [role |-> "assistant", content |-> << >>]>>
           /\ message' = ""
           /\ calls' = Append(calls, [assistantIndex |-> assistantIndex(history),
                                      phase |-> "fetch", fullResponse |-> << >>,
                                      reads |-> 0])
           /\ UNCHANGED <<selectedNeighborhood, position>>

\* onClick of the Send button, which is disabled while isLoading
ClickSend ==
    /\ UNCHANGED routeVars
    /\ ~isLoading
    /\ Len(calls) < MaxSubmits
    /\ handleSubmit

\* onKeyDown of the input with e.key === 'Enter'
PressEnter ==
    /\ UNCHANGED routeVars
    /\ Len(calls) < MaxSubmits
    /\ handleSubmit

\* the outer catch, then setIsLoading(false)
Catch(c) ==
    /\ history' = SetTurn(history, calls[c].assistantIndex,
                          [role |-> "assistant", content |-> Apology])
    /\ isLoading' = FALSE
    /\ calls' = [calls EXCEPT ![c].phase = "failed", ![c].fullResponse = << >>]
    /\ UNCHANGED <<message, selectedNeighborhood, position>>

\* fetch rejects
FetchRejects ==
    /\ UNCHANGED routeVars
    /\ \E c \in 1..Len(calls) :
        /\ calls[c].phase = "fetch"
        /\ Catch(c)

\* fetch resolves; a status that is not OK throws
FetchResolves ==
    /\ UNCHANGED routeVars
    /\ \E c \in 1..Len(calls), ok \in BOOLEAN :
        /\ calls[c].phase = "fetch"
        /\ IF ok
             THEN /\ calls' = [calls EXCEPT ![c].phase = "read"]
                  /\ UNCHANGED <<message, history, isLoading, selectedNeighborhood, position>>
             ELSE Catch(c)

\* { ...existing, content: existing.content + chunk }
appendChunkInFront(existing, chunk) ==
    [role |-> existing.role, content |-> chunk \o existing.content]

appendChunk(existing, chunk) ==
    [role |-> existing.role, content |-> existing.content \o chunk]

\* the chunks delivered so far to the first k calls of the session
RECURSIVE ChunksRead(_)
ChunksRead(k) == IF k = 0 THEN 0 ELSE ChunksRead(k - 1) + calls[k].reads

\* reader.read() resolves with a chunk and done false
ReadChunk ==
    /\ UNCHANGED routeVars
    /\ \E c \in 1..Len(calls), chunk \in Chunks :
        /\ calls[c].phase = "read"
        /\ ChunksRead(Len(calls)) < MaxChunks
        /\ calls' = [calls EXCEPT ![c].fullResponse = @ \o chunk, ![c].reads = @ + 1]
        /\ LET i == calls[c].assistantIndex
               existing == history[i + 1]
           IN history' = SetTurn(history, i, appendChunk(existing, chunk))
        /\ UNCHANGED <<message, isLoading, selectedNeighborhood, position>>

\* reader.read() resolves with done true: the empty chunk is appended, the
\* loop ends, the complete text is searched for the sentinel line, and
\* setIsLoading(false) runs
ReadDone ==
    /\ UNCHANGED routeVars
    /\ \E c \in 1..Len(calls) :
        /\ calls[c].phase = "read"
        /\ LET i == calls[c].assistantIndex
               lines == split(calls[c].fullResponse)
               jsonLine == find(lines)
               hit == /\ jsonLine # 0
                      /\ Parses(lines[jsonLine])
                      /\ ~ParsedOf(lines[jsonLine]).location.isNull
           IN IF hit
                THEN LET p == ParsedOf(lines[jsonLine])
                     IN /\ position' = [lat |-> p.location.lat, lon |-> p.location.lon]
                        /\ selectedNeighborhood' = [isNull |-> FALSE, lat |-> p.location.lat,
                                                    lon |-> p.location.lon, insights |-> p.response]
                        /\ history' = SetTurn(history, i,
                                         [role |-> history[i + 1].role, content |-> p.response])
                ELSE UNCHANGED <<position, selectedNeighborhood, history>>
        /\ isLoading' = FALSE
        /\ calls' = [calls EXCEPT ![c].phase = "done"]
        /\ UNCHANGED message

\* reader.read() rejects
ReadThrows ==
    /\ UNCHANGED routeVars
    /\ \E c \in 1..Len(calls) :
        /\ calls[c].phase = "read"
        /\ Catch(c)

PageNext ==
    \/ Type
    \/ ClickSend
    \/ PressEnter
    \/ FetchRejects
    \/ FetchResolves
    \/ ReadChunk
    \/ ReadDone
    \/ ReadThrows

(***************************************************************************)
(* Specifications                                                          *)
(***************************************************************************)
Init == RouteInit /\ PageInit

\* the page alone: the route variables stay at one initial value
PageOnlyInit ==
    /\ Init
    /\ variant = "global"
    /\ fuzzy = [x \in LowerNames \X LowerQueries |-> 0]

\* the route, serving one request after another
Next == RouteNext

Spec == Init /\ [][Next]_vars

\* one session of the page
PageSpec == PageOnlyInit /\ [][PageNext]_vars

(***************************************************************************)
(* Properties of the route (checked under Spec)                            *)
(***************************************************************************)
\* the score of the i-th record of the dataset on disk for the request's message
ScoreAt(i) == fuzzy[<<toLowerCase(file.data[i].name), toLowerCase(body.message.val)>>]

\* the best score: the largest score of a record, 0 when none is positive
BestScore ==
    LET all == {ScoreAt(i) : i \in 1..Len(file.data)} \cup {0}
    IN CHOOSE x \in all : \A y \in all : y <= x

\* the upstream API has been called for the current request
Called == upstreamCalls > 0

\* C1: the neighborhood block is in the system prompt sent upstream if and
\* only if the best match score is strictly greater than 0.7; otherwise
\* (also for the empty dataset) the bare template of the deployed version
\* is sent.
C1_BlockIffAboveThreshold ==
    Called =>
      /\ sent.system.template = variant
      /\ sent.system.context.present <=> (BestScore > Threshold)

\* a non-empty dataset whose best score is exactly 0.7: no block is sent
C1_Witness ==
    /\ Called
    /\ Len(file.data) > 0
    /\ BestScore = Threshold
    /\ ~sent.system.context.present

\* C2: the reduce selects at most one record; a selected record has the
\* maximum score of all records, and among records with that score it is
\* the first in dataset order; no record is selected only when no score is
\* positive.
C2_FirstMaxWins ==
    Called =>
      LET m == matchedNeighborhood
          N == Len(neighborhoods)
      IN /\ m.index \in 0..N
         /\ m.index = 0 => /\ m = InitialBest
                           /\ \A j \in 1..N : ScoreAt(j) <= 0
         /\ m.index # 0 =>
              /\ m.name = neighborhoods[m.index].name
              /\ m.description = neighborhoods[m.index].description
              /\ m.lat = neighborhoods[m.index].lat
              /\ m.lon = neighborhoods[m.index].lon
              /\ m.score = ScoreAt(m.index)
              /\ \A j \in 1..N : ScoreAt(j) <= m.score
              /\ \A j \in 1..(m.index - 1) : ScoreAt(j) < m.score

\* two different records tie at the maximum and the earlier one is selected
C2_Witness ==
    /\ Called
    /\ matchedNeighborhood.index = 1
    /\ \E j \in 2..Len(neighborhoods) :
         /\ ScoreAt(j) = matchedNeighborhood.score
         /\ neighborhoods[j] # neighborhoods[1]

\* C3: in a successful response, parsed.location is the lat/lon of the
\* accepted record exactly when that record's block was in the prompt sent
\* upstream, and null exactly when the bare template was sent.
C3_LocationMatchesPrompt ==
    response.parsed =>
      LET ctx == sent.system.context
          i == matchedNeighborhood.index
      IN /\ response.location.isNull <=> ~ctx.present
         /\ ctx.present =>
              /\ i \in 1..Len(neighborhoods)
              /\ ctx.name = neighborhoods[i].name
              /\ ctx.description = neighborhoods[i].description
              /\ response.location.lat = neighborhoods[i].lat
              /\ response.location.lon = neighborhoods[i].lon

\* a successful response that carries the location of the second record
C3_Witness ==
    /\ response.parsed
    /\ ~response.location.isNull
    /\ matchedNeighborhood.index = 2
    /\ sent.system.context.present

KeyNotSetResponse == ErrorResponse(500, "Groq API key not set", "")

\* C4 as stated: whenever GROQ_API_KEY is missing, the request is answered
\* with 500 { error: 'Groq API key not set' } and the upstream API is never
\* called.
C4_Original ==
    (pc = "done" /\ GROQ_API_KEY = Undefined) =>
      /\ response = KeyNotSetResponse
      /\ upstreamCalls = 0

\* C4 amended: whenever GROQ_API_KEY is missing (unset or empty) the
\* upstream API is never called, and a request whose body parses to an object
\* with a non-empty string message is answered with
\* 500 { error: 'Groq API key not set' }.
C4_MissingKey ==
    (GROQ_API_KEY \in {Undefined, ""} /\ pc # "idle") =>
      /\ upstreamCalls = 0
      /\ pc \in {"json", "done"}
      /\ (/\ pc = "done"
          /\ body.kind = "object"
          /\ body.message.type = "string"
          /\ body.message.val # "") => (response = KeyNotSetResponse /\ responses = 1)

\* a valid request answered with the key error, the key being the empty string
C4_Witness ==
    /\ pc = "done"
    /\ GROQ_API_KEY = ""
    /\ response = KeyNotSetResponse
    /\ file.state = "ok"

\* C5: a body that is not parseable JSON is answered with
\* 400 { error: 'Invalid request body' } and nothing else happens: the
\* dataset is not read and the upstream API is not called.
C5_InvalidBody ==
    body.kind = "malformed" =>
      /\ pc \in {"json", "done"}
      /\ datasetReads = 0
      /\ upstreamCalls = 0
      /\ neighborhoods = << >>
      /\ sent = NothingSent
      /\ pc = "done" => /\ response = ErrorResponse(400, "Invalid request body", "")
                        /\ responses = 1

\* a malformed body answered while the key is set and the dataset readable
C5_Witness ==
    /\ pc = "done"
    /\ body.kind = "malformed"
    /\ response.status = 400
    /\ GROQ_API_KEY = "gsk_key"
    /\ file.state = "ok"

\* C6: every request ends in exactly one response, the upstream API is
\* called at most once, and every failure response has status 400 or 500
\* and a JSON body with an error field.
C6_OneResponseJsonError ==
    /\ responses <= 1
    /\ upstreamCalls <= 1
    /\ pc = "done" =>
         /\ responses = 1
         /\ ~response.parsed =>
              /\ response.status \in {400, 500}
              /\ response.json
              /\ response.error # ""

\* C7 as stated: whenever the upstream call returns without throwing, the
\* JSON returned has parsed.response as a non-empty string.
C7_Original ==
    (pc = "done" /\ upstream = "returned") =>
      /\ response.parsed
      /\ response.text # ""

\* C7 amended: whenever the upstream call returns a completion whose content
\* is a non-empty string, the JSON returned has parsed.response equal to
\* that non-empty string; a completion without content (absent or empty) is
\* answered with 500 { error: 'Empty response from model' }.
C7_NonEmptyResponse ==
    (pc = "done" /\ upstream = "returned") =>
      /\ response.parsed => /\ response.status = 200
                            /\ response.text = aiResponse
                            /\ response.text \notin {"", Undefined}
      /\ aiResponse \notin {"", Undefined} => response.parsed
      /\ aiResponse \in {"", Undefined} =>
           response = ErrorResponse(500, "Empty response from model", "")

\* the upstream call returned content and the envelope carries it
C7_Witness ==
    /\ pc = "done"
    /\ upstream = "returned"
    /\ response.parsed
    /\ response.text = "Elevate utilities."

(***************************************************************************)
(* Properties of the page (checked under PageSpec)                         *)
(***************************************************************************)
\* the calls whose request has not completed
InFlight == {c \in 1..Len(calls) : calls[c].phase \in {"fetch", "read"}}

\* C8: at most one /api/chat request is in flight at any time.
C8_AtMostOneInFlight == Cardinality(InFlight) <= 1

\* the placeholder of the c-th submit is the 2c-th turn of the history
Placeholder(c) == 2 * c

ApologyTurn == [role |-> "assistant", content |-> Apology]

\* C9: when a request fails (fetch rejects, status not OK, read throws, also
\* after chunks were appended), its placeholder turn becomes exactly the
\* apology and stays so, and the failure changes no other turn.
C9_FailureShowsApology ==
    [][/\ \A c \in 1..Len(calls') :
            calls'[c].phase = "failed" => history'[Placeholder(c)] = ApologyTurn
       /\ \A c \in 1..Len(calls) :
            (calls[c].phase # "failed" /\ calls'[c].phase = "failed") =>
              /\ Len(history') = Len(history)
              /\ \A j \in 1..Len(history) :
                   j # Placeholder(c) => history'[j] = history[j]]_vars

\* the first request failed after a chunk had been appended, while the
\* second request was being read
C9_Witness ==
    /\ Len(calls) = 2
    /\ calls[1].phase = "failed"
    /\ calls[1].reads > 0
    /\ calls[2].phase = "read"
    /\ calls[2].fullResponse # << >>

\* the complete text has a line that starts with {"parsed":
HasSentinelLine(text) ==
    \E i \in 1..Len(text) : text[i] \in Sentinels /\ (i = 1 \/ text[i - 1] = Newline)

\* C10: when the stream is done, a text with a sentinel line makes the
\* placeholder's content the cleaned parsed.response and updates the map
\* position and marker; a text without one stays as the content and leaves
\* the map unchanged.
C10_SentinelReplacesContent ==
    [][\A c \in 1..Len(calls) :
         (calls[c].phase = "read" /\ calls'[c].phase = "done") =>
           IF HasSentinelLine(calls[c].fullResponse)
             THEN /\ history'[Placeholder(c)].content = <<"Raise.">>
                  /\ ~selectedNeighborhood'.isNull
                  /\ position' = [lat |-> selectedNeighborhood'.lat,
                                  lon |-> selectedNeighborhood'.lon]
             ELSE /\ history'[Placeholder(c)].content = calls[c].fullResponse
                  /\ UNCHANGED <<position, selectedNeighborhood>>]_vars

C12_LoadingWhileInFlight ==
    /\ InFlight # {} => isLoading
    /\ InFlight = {} => ~isLoading

(***************************************************************************)
(* Order of the route's checks (checked under Spec)                        *)
(***************************************************************************)
\* the request carries a message that is a non-empty string
MessageOk == body.message.type = "string" /\ body.message.val # ""

\* C13: the checks run in the order body parse, message, API key, dataset
\* read, upstream call, and the first failing check alone decides the
\* response: an unparseable body yields 400 'Invalid request body'; otherwise a
\* missing, empty or non-string message yields 400 whatever the key and the
\* dataset are; otherwise a missing key yields 500 'Groq API key not set'
\* whatever the dataset is; otherwise an unreadable dataset yields 500; the
\* upstream API is called only when all four checks passed.
C13_FirstFailingCheckDecides ==
    /\ Called =>
         /\ body.kind # "malformed"
         /\ MessageOk
         /\ GROQ_API_KEY \notin {Undefined, ""}
         /\ file.state = "ok"
    /\ pc = "done" =>
         IF body.kind = "malformed"
           THEN response = ErrorResponse(400, "Invalid request body", "")
         ELSE IF ~MessageOk
           THEN response = ErrorResponse(400, "Message is required and must be a string", "")
         ELSE IF GROQ_API_KEY \in {Undefined, ""}
           THEN response = KeyNotSetResponse
         ELSE IF file.state # "ok"
           THEN response = ErrorResponse(500, "Internal data error", "")
         ELSE Called

====
